---- MODULE Spec2Model ----
(***************************************************************************)
(* Txt2Epub.create_epub (src/txt2epub/txt2epub.py) as a state machine.     *)
(* One call of create_epub is one behaviour: pc walks through the steps of *)
(* the function body; a raised exception ends the call in pc = "failed".   *)
(* A Python str is a sequence of one-character strings.                    *)
(***************************************************************************)
EXTENDS Integers, Sequences, FiniteSets, TLC

VARIABLES
    args,             \* the arguments of the call (never change)
    file_text,        \* the contents of input_file
    pc,               \* the step the call is about to run
    error,            \* the exception that left create_epub, or "none"
    book_identifier,  \* locals of create_epub, named as in the code
    book_title,
    book_author,
    book_language,
    book_text,
    chapters,
    book_cover_jpeg,
    book,
    info,
    message,
    use_section,
    spine,
    toc,
    current_section,
    chapter_id,
    detect_calls,     \* arguments of the calls of langdetect.detect, in order
    detect_failed,    \* langdetect.detect raised LangDetectException
    cover_calls,      \* arguments of the calls of convert_image_to_jpeg
    written           \* the calls of epub.write_epub that wrote a file

vars == <<args, file_text, pc, error, book_identifier, book_title, book_author,
          book_language, book_text, chapters, book_cover_jpeg, book, info,
          message, use_section, spine, toc, current_section, chapter_id,
          detect_calls, detect_failed, cover_calls, written>>

----------------------------------------------------------------------------
(* Bounds of the model *)

\* longest input text drawn character by character
MaxLen == 5
\* largest linebreaks argument
MaxN == 3
\* most post-preamble blocks of a text assembled from BlockForms
MaxBlocks == 3
\* number of blocks of the long texts (two-digit chapter numbers)
MaxLong == 10
\* longest filename stem
MaxStem == 4

----------------------------------------------------------------------------
(* Python values *)

NL == "\n"

\* Optional[str]: None, or a str
None == [some |-> FALSE, val |-> <<>>]
Some(s) == [some |-> TRUE, val |-> s]

\* bool(x) of an Optional[str]: None and "" are falsy
Truthy(o) == o.some /\ o.val # <<>>

\* x or y
OrElse(o, d) == IF Truthy(o) THEN o.val ELSE d

\* "\n" * n
Newlines(n) == [i \in 1..n |-> NL]

\* s[i:] (i is 1-based here)
Tail_From(s, i) == SubSeq(s, i, Len(s))

\* str.split(sep) for a non-empty sep: cuts at each occurrence of sep found
\* scanning left to right, continuing right after the occurrence
RECURSIVE SplitFrom(_, _, _, _)
SplitFrom(s, sep, i, start) ==
    IF i + Len(sep) - 1 > Len(s)
    THEN <<SubSeq(s, start, Len(s))>>
    ELSE IF SubSeq(s, i, i + Len(sep) - 1) = sep
         THEN <<SubSeq(s, start, i - 1)>>
              \o SplitFrom(s, sep, i + Len(sep), i + Len(sep))
         ELSE SplitFrom(s, sep, i + 1, start)

Split(s, sep) == SplitFrom(s, sep, 1, 1)

\* str.lstrip(chars): drops the leading characters that are in chars
LStripChars(s, chars) ==
    LET k == CHOOSE j \in 0..Len(s) :
                 /\ \A i \in 1..j : s[i] \in chars
                 /\ (j = Len(s) \/ s[j + 1] \notin chars)
    IN  Tail_From(s, k + 1)

\* the whitespace str.lstrip() drops
Whitespace == {" ", "\t", NL, "\r"}

LStrip(s) == LStripChars(s, Whitespace)

\* sep.join(parts)
RECURSIVE Join(_, _)
Join(parts, sep) ==
    IF parts = <<>> THEN <<>>
    ELSE IF Len(parts) = 1 THEN parts[1]
    ELSE parts[1] \o sep \o Join(Tail(parts), sep)

\* "{:02d}".format(n) for n >= 0
DigitChar(d) == <<"0", "1", "2", "3", "4", "5", "6", "7", "8", "9">>[d + 1]

RECURSIVE Digits(_)
Digits(n) == IF n < 10 THEN <<DigitChar(n)>>
             ELSE Digits(n \div 10) \o <<DigitChar(n % 10)>>

Format02d(n) == IF Len(Digits(n)) < 2 THEN <<"0">> \o Digits(n) ELSE Digits(n)

\* pathlib.Path(s): the empty path is the current directory "."
Path(s) == IF s = <<>> THEN <<".">> ELSE s

----------------------------------------------------------------------------
(* The regular expressions *)

\* "$" matches at the end of the string and before a newline that ends it
AtEnd(s, j) == j = Len(s) \/ (j = Len(s) - 1 /\ s[Len(s)] = NL)

\* re.match(r"^={3,}", s)
MatchSectionStart(s) == Len(s) >= 3 /\ \A i \in 1..3 : s[i] = "="

\* re.match(r"^={3,}$", s)
MatchSectionLine(s) ==
    \E j \in 3..Len(s) : AtEnd(s, j) /\ \A i \in 1..j : s[i] = "="

\* re.match(r"^(.*?)\((.*?)\)$", stem): group 1 stops at the first "(" from
\* which the rest can match, group 2 at the first ")" that ends the string;
\* "." matches no newline
StemSplits(s) ==
    {<<i, j>> \in (1..Len(s)) \X (1..Len(s)) :
        /\ i < j
        /\ s[i] = "("
        /\ s[j] = ")"
        /\ AtEnd(s, j)
        /\ \A k \in (1..(j - 1)) \ {i} : s[k] # NL}

MatchStem(s) ==
    IF StemSplits(s) = {} THEN [matched |-> FALSE, g1 |-> <<>>, g2 |-> <<>>]
    ELSE LET i == CHOOSE a \in {p[1] : p \in StemSplits(s)} :
                      \A b \in {p[1] : p \in StemSplits(s)} : a <= b
             j == CHOOSE a \in {p[2] : p \in {q \in StemSplits(s) : q[1] = i}} :
                      \A b \in {p[2] : p \in {q \in StemSplits(s) : q[1] = i}} : a <= b
         IN  [matched |-> TRUE,
              g1 |-> SubSeq(s, 1, i - 1),
              g2 |-> SubSeq(s, i + 1, j - 1)]

----------------------------------------------------------------------------
(* The items of the book *)

StrInfo == <<"I", "n", "f", "o">>
StrMessage == <<"M", "e", "s", "s", "a", "g", "e">>
StrUnknown == <<"U", "n", "k", "n", "o", "w", "n">>
StrEn == <<"e", "n">>
StrInfoFile == <<"i", "n", "f", "o", ".", "x", "h", "t", "m", "l">>
StrMessageFile == <<"m", "e", "s", "s", "a", "g", "e", ".", "x", "h", "t", "m", "l">>
StrChap == <<"c", "h", "a", "p", "_">>
StrXhtml == <<".", "x", "h", "t", "m", "l">>
StrEpub == <<".", "e", "p", "u", "b">>

\* the "nav" entry of the spine
Nav == [item |-> "nav"]

\* epub.EpubHtml(title, file_name, lang) with its content; the content is the
\* sequence of its elements
EpubHtml(title, file_name, lang, content) ==
    [title |-> title, file_name |-> file_name, lang |-> lang, content |-> content]

Element(tag, text) == [tag |-> tag, text |-> text]

\* "".join("<p>{}</p>".format(line.lstrip()) for line in lines)
Paragraphs(lines) == [i \in 1..Len(lines) |-> Element("p", LStrip(lines[i]))]

NoNode == EpubHtml(<<>>, <<>>, <<>>, <<>>)

NoBook == [identifier |-> <<>>, title |-> <<>>, author |-> <<>>, language |-> <<>>,
           cover |-> None, items |-> <<>>, spine |-> <<>>, toc |-> <<>>]

InfoNode(title, author, lang) ==
    EpubHtml(StrInfo, StrInfoFile, lang,
             <<Element("h1", title), Element("h2", author)>>)

MessageNode(preamble, lang) ==
    EpubHtml(StrMessage, StrMessageFile, lang, Paragraphs(Split(preamble, <<NL>>)))

\* FileName numbering from chapter_id itself, not chapter_id + 1
FileNameZeroBased(id) == StrChap \o Format02d(id) \o StrXhtml

\* "chap_{:02d}.xhtml".format(chapter_id + 1)
FileName(id) == StrChap \o Format02d(id + 1) \o StrXhtml

SectionNode(section_title, id, lang) ==
    EpubHtml(section_title, FileName(id), lang, <<Element("h1", section_title)>>)

ChapterNode(chapter_title, chapter_content, id, lang) ==
    EpubHtml(chapter_title, FileName(id), lang,
             <<Element("h2", chapter_title)>> \o Paragraphs(chapter_content))

----------------------------------------------------------------------------
(* The steps of create_epub *)

\* book_identifier or str(uuid.uuid4())
UUIDs == {<<"u", "1">>, <<"u", "2">>}

ResolveTitle(stem, title) ==
    IF MatchStem(stem).matched THEN OrElse(title, MatchStem(stem).g1)
    ELSE OrElse(title, stem)

ResolveAuthor(stem, author) ==
    IF MatchStem(stem).matched THEN OrElse(author, MatchStem(stem).g2)
    ELSE OrElse(author, StrUnknown)

\* NeedsDetect without the short circuit: detect runs on every call
NeedsDetectAlways(language) == TRUE

\* book_language or langdetect.detect(book_text): detect runs only when
\* book_language is falsy
NeedsDetect(language) == ~Truthy(language)

\* the tags langdetect.detect returns in the model
DetectedTags == {<<"z", "h">>}

\* SplitChapters cutting on one newline more
SplitChaptersLonger(text, linebreaks) == Split(text, Newlines(linebreaks + 1))

SplitChapters(text, linebreaks) == Split(text, Newlines(linebreaks))

\* CoverRequested without the test for the empty path
CoverRequestedNotNone(cover) == cover.some

\* book_cover is not None and book_cover != pathlib.Path()
CoverRequested(cover) == cover.some /\ Path(cover.val) # Path(<<>>)

\* re.match(r"^={3,}", chapters[0].lstrip("\n")); chapters[0] of an empty
\* list raises IndexError
SectionModeOf(chs) == MatchSectionStart(LStripChars(chs[1], {NL}))

\* chapter_content_full.lstrip("\n").split("\n")
ChapterLines(chapter_content_full) ==
    Split(LStripChars(chapter_content_full, {NL}), <<NL>>)

IsSectionMarker(chapter_title) == MatchSectionLine(chapter_title)

\* InitialSpine with the navigation entry first
InitialSpineNavFirst(i, m) == <<Nav, i, m>>

InitialSpine(i, m) == <<i, m, Nav>>

\* while (section_title := chapter_content.pop(0)) == "": continue
\* pop(0) of an empty list raises IndexError
RECURSIVE PopSectionTitle(_)
PopSectionTitle(chapter_content) ==
    IF chapter_content = <<>> THEN [ok |-> FALSE, title |-> <<>>]
    ELSE IF Head(chapter_content) = <<>> THEN PopSectionTitle(Tail(chapter_content))
    ELSE [ok |-> TRUE, title |-> Head(chapter_content)]

\* if current_section != []: toc.append(current_section)
FlushSection(t, cs) == IF cs # <<>> THEN Append(t, cs) ELSE t

\* current_section.append(section); current_section.append([])
OpenSection(section) == <<section, <<>>>>

\* AddToSection opening a section of its own for a chapter met before any
AddToSectionLenient(cs, chapter) ==
    IF Len(cs) < 2 THEN [ok |-> TRUE, cs |-> <<chapter, <<>>>>]
    ELSE [ok |-> TRUE, cs |-> <<cs[1], Append(cs[2], chapter)>>]

\* current_section[1].append(chapter); current_section[1] of an empty list
\* raises IndexError
AddToSection(cs, chapter) ==
    IF Len(cs) < 2 THEN [ok |-> FALSE, cs |-> cs]
    ELSE [ok |-> TRUE, cs |-> <<cs[1], Append(cs[2], chapter)>>]

\* AddToToc putting the chapter first
AddToTocFront(t, chapter) == <<chapter>> \o t

\* toc.append(chapter) outside section mode
AddToToc(t, chapter) == Append(t, chapter)

\* FinishToc without the append of the open section
FinishTocDropsOpen(t, cs, section_mode) == t

\* if use_section: toc.append(current_section)
FinishToc(t, cs, section_mode) == IF section_mode THEN Append(t, cs) ELSE t

\* output_file, or input_file.with_suffix(".epub")
OutputPath(output_file, stem) ==
    IF output_file.some THEN output_file.val ELSE stem \o StrEpub

----------------------------------------------------------------------------
(* The calls of create_epub the model explores *)

\* linebreaks: int = 3
DefaultLinebreaks == 3

DefaultArgs ==
    [stem |-> <<"b">>, output_file |-> None, book_identifier |-> Some(<<"i", "d">>),
     book_title |-> None, book_author |-> None,
     book_language |-> Some(<<"z", "h">>), book_cover |-> None,
     linebreaks |-> DefaultLinebreaks]

SeqsUpTo(S, n) == UNION {[1..k -> S] : k \in 0..n}

\* every text of at most MaxLen characters
TextAlphabet == {NL, "=", "a"}
CharTexts == SeqsUpTo(TextAlphabet, MaxLen)

\* texts assembled from a preamble and blocks of these forms
FormSection == <<"=", "=", "=", NL, "T">>
FormSectionBlank == <<"=", "=", "=", "=", NL, NL, "T">>
FormSectionBare == <<"=", "=", "=">>
FormChapter == <<"a", NL, " ", "b">>
FormEquals == <<"=", "=", "=", "a">>
FormLead == <<NL, "a">>
BlockForms == {FormSection, FormSectionBlank, FormSectionBare, FormChapter,
               FormEquals, FormLead}
Preamble == <<"p">>
DocTexts(n) ==
    {Join(<<Preamble>> \o bs, Newlines(n)) : bs \in SeqsUpTo(BlockForms, MaxBlocks)}

\* texts of MaxLong blocks, sections and chapters
LongTexts ==
    {Join(<<Preamble>> \o bs, Newlines(DefaultLinebreaks)) :
        bs \in [1..MaxLong -> {FormSection, <<"a">>}]}

\* filename stems
Stems == SeqsUpTo({"a", "(", ")"}, MaxStem)
OptionalStrs(s) == {None, Some(<<>>), Some(s)}
MetaText == <<"p", NL, NL, NL, "a">>

EnvTexts == {<<>>, <<"h", "i">>, MetaText,
             Join(<<Preamble, FormSection, <<"a">>>>, Newlines(DefaultLinebreaks))}
CoverArgs == {None, Some(<<>>), Some(<<".">>), Some(<<"c">>)}

InitLocals ==
    /\ pc = "meta"
    /\ error = "none"
    /\ book_identifier = args.book_identifier
    /\ book_title = args.book_title
    /\ book_author = args.book_author
    /\ book_language = args.book_language
    /\ book_text = <<>>
    /\ chapters = <<>>
    /\ book_cover_jpeg = None
    /\ book = NoBook
    /\ info = NoNode
    /\ message = NoNode
    /\ use_section = FALSE
    /\ spine = <<>>
    /\ toc = <<>>
    /\ current_section = <<>>
    /\ chapter_id = 0
    /\ detect_calls = <<>>
    /\ detect_failed = FALSE
    /\ cover_calls = <<>>
    /\ written = <<>>

InitText ==
    /\ \E n \in 1..MaxN : args = [DefaultArgs EXCEPT !.linebreaks = n]
    /\ file_text \in CharTexts

InitDoc ==
    \E n \in 1..MaxN :
        /\ args = [DefaultArgs EXCEPT !.linebreaks = n]
        /\ file_text \in DocTexts(n)

InitLong ==
    /\ args = DefaultArgs
    /\ file_text \in LongTexts

InitMeta ==
    /\ \E stem \in Stems, t \in OptionalStrs(<<"T">>), a \in OptionalStrs(<<"A">>),
          i \in {None, Some(<<"i", "d">>)} :
          args = [DefaultArgs EXCEPT !.stem = stem, !.book_title = t,
                                     !.book_author = a, !.book_identifier = i]
    /\ file_text = MetaText

InitEnv ==
    /\ \E l \in OptionalStrs(<<"f", "r">>), c \in CoverArgs, o \in {None, Some(<<"o">>)} :
          args = [DefaultArgs EXCEPT !.book_language = l, !.book_cover = c,
                                     !.output_file = o]
    /\ file_text \in EnvTexts

Init == (InitText \/ InitDoc \/ InitLong \/ InitMeta \/ InitEnv) /\ InitLocals

----------------------------------------------------------------------------
(* The actions: the steps of create_epub, in program order *)

Raise(e) == pc' = "failed" /\ error' = e

\* lines 26-33
ResolveMeta ==
    /\ pc = "meta"
    /\ \E u \in UUIDs : book_identifier' = Some(OrElse(book_identifier, u))
    /\ book_title' = Some(ResolveTitle(args.stem, book_title))
    /\ book_author' = Some(ResolveAuthor(args.stem, book_author))
    /\ pc' = "read"
    /\ UNCHANGED <<args, file_text, error, book_language, book_text, chapters,
                   book_cover_jpeg, book, info, message, use_section, spine, toc,
                   current_section, chapter_id, detect_calls, detect_failed,
                   cover_calls, written>>

\* lines 35-37: the file is read, or open/read raises
ReadInput ==
    /\ pc = "read"
    /\ \/ book_text' = file_text /\ pc' = "lang" /\ UNCHANGED error
       \/ Raise("OSError") /\ UNCHANGED book_text
    /\ UNCHANGED <<args, file_text, book_identifier, book_title, book_author,
                   book_language, chapters, book_cover_jpeg, book, info, message,
                   use_section, spine, toc, current_section, chapter_id,
                   detect_calls, detect_failed, cover_calls, written>>

\* lines 39-43
DetectLanguage ==
    /\ pc = "lang"
    /\ IF NeedsDetect(book_language)
       THEN /\ detect_calls' = Append(detect_calls, book_text)
            /\ \/ \E tag \in DetectedTags :
                     book_language' = Some(tag) /\ UNCHANGED detect_failed
               \/ book_language' = Some(StrEn) /\ detect_failed' = TRUE
       ELSE /\ book_language' = Some(book_language.val)
            /\ UNCHANGED <<detect_calls, detect_failed>>
    /\ pc' = "split"
    /\ UNCHANGED <<args, file_text, error, book_identifier, book_title,
                   book_author, book_text, chapters, book_cover_jpeg, book, info,
                   message, use_section, spine, toc, current_section, chapter_id,
                   cover_calls, written>>

\* lines 45-46
SplitText ==
    /\ pc = "split"
    /\ chapters' = SplitChapters(book_text, args.linebreaks)
    /\ pc' = "cover"
    /\ UNCHANGED <<args, file_text, error, book_identifier, book_title,
                   book_author, book_language, book_text, book_cover_jpeg, book,
                   info, message, use_section, spine, toc, current_section,
                   chapter_id, detect_calls, detect_failed, cover_calls, written>>

\* lines 48-51: convert_image_to_jpeg returns the image, or raises
ConvertCover ==
    /\ pc = "cover"
    /\ IF CoverRequested(args.book_cover)
       THEN /\ cover_calls' = Append(cover_calls, Path(args.book_cover.val))
            /\ \/ /\ book_cover_jpeg' = Some(<<"j", "p", "e", "g">>)
                  /\ pc' = "pages"
                  /\ UNCHANGED error
               \/ Raise("ImageError") /\ UNCHANGED book_cover_jpeg
       ELSE /\ pc' = "pages"
            /\ UNCHANGED <<error, book_cover_jpeg, cover_calls>>
    /\ UNCHANGED <<args, file_text, book_identifier, book_title, book_author,
                   book_language, book_text, chapters, book, info, message,
                   use_section, spine, toc, current_section, chapter_id,
                   detect_calls, detect_failed, written>>

\* lines 53-86: the book, its metadata, the info page and the message page;
\* chapters.pop(0) takes the preamble
AddPages ==
    /\ pc = "pages"
    /\ info' = InfoNode(book_title.val, book_author.val, book_language.val)
    /\ message' = MessageNode(Head(chapters), book_language.val)
    /\ chapters' = Tail(chapters)
    /\ book' = [NoBook EXCEPT !.identifier = book_identifier.val,
                              !.title = book_title.val,
                              !.author = book_author.val,
                              !.language = book_language.val,
                              !.cover = book_cover_jpeg,
                              !.items = <<StrInfoFile, StrMessageFile>>]
    /\ pc' = "detect"
    /\ UNCHANGED <<args, file_text, error, book_identifier, book_title,
                   book_author, book_language, book_text, book_cover_jpeg,
                   use_section, spine, toc, current_section, chapter_id,
                   detect_calls, detect_failed, cover_calls, written>>

\* lines 88-100
DetectSection ==
    /\ pc = "detect"
    /\ IF chapters = <<>>
       THEN Raise("IndexError") /\ UNCHANGED <<use_section, spine>>
       ELSE /\ use_section' = SectionModeOf(chapters)
            /\ spine' = InitialSpine(info, message)
            /\ pc' = "loop"
            /\ UNCHANGED error
    /\ toc' = <<>>
    /\ current_section' = <<>>
    /\ chapter_id' = 0
    /\ UNCHANGED <<args, file_text, book_identifier, book_title, book_author,
                   book_language, book_text, chapters, book_cover_jpeg, book, info,
                   message, detect_calls, detect_failed, cover_calls, written>>

\* the block the loop is at, its title line and the lines after it
AtBlock == pc = "loop" /\ chapter_id < Len(chapters)
chapter_lines == ChapterLines(chapters[chapter_id + 1])
chapter_title == chapter_lines[1]
chapter_content == Tail(chapter_lines)

\* lines 106-126: one iteration of the loop at a section marker
SectionMarker ==
    /\ AtBlock
    /\ use_section /\ IsSectionMarker(chapter_title)
    /\ toc' = FlushSection(toc, current_section)
    /\ LET popped == PopSectionTitle(chapter_content)
           section == SectionNode(popped.title, chapter_id, book_language.val)
       IN  IF popped.ok
           THEN /\ book' = [book EXCEPT !.items = Append(@, section.file_name)]
                /\ spine' = Append(spine, section)
                /\ current_section' = OpenSection(section)
                /\ chapter_id' = chapter_id + 1
                /\ UNCHANGED <<pc, error>>
           ELSE /\ Raise("IndexError")
                /\ current_section' = <<>>
                /\ UNCHANGED <<book, spine, chapter_id>>
    /\ UNCHANGED <<args, file_text, book_identifier, book_title, book_author,
                   book_language, book_text, chapters, book_cover_jpeg, info,
                   message, use_section, detect_calls, detect_failed, cover_calls,
                   written>>

\* lines 128-146: one iteration of the loop at any other block
Chapter ==
    /\ AtBlock
    /\ ~(use_section /\ IsSectionMarker(chapter_title))
    /\ LET chapter == ChapterNode(chapter_title, chapter_content, chapter_id,
                                  book_language.val)
           added == AddToSection(current_section, chapter)
       IN  /\ book' = [book EXCEPT !.items = Append(@, chapter.file_name)]
           /\ spine' = Append(spine, chapter)
           /\ IF use_section
              THEN IF added.ok
                   THEN /\ current_section' = added.cs
                        /\ chapter_id' = chapter_id + 1
                        /\ UNCHANGED <<toc, pc, error>>
                   ELSE /\ Raise("IndexError")
                        /\ UNCHANGED <<toc, current_section, chapter_id>>
              ELSE /\ toc' = AddToToc(toc, chapter)
                   /\ chapter_id' = chapter_id + 1
                   /\ UNCHANGED <<current_section, pc, error>>
    /\ UNCHANGED <<args, file_text, book_identifier, book_title, book_author,
                   book_language, book_text, chapters, book_cover_jpeg, info,
                   message, use_section, detect_calls, detect_failed, cover_calls,
                   written>>

\* lines 148-153: the blocks are exhausted
Finish ==
    /\ pc = "loop"
    /\ chapter_id = Len(chapters)
    /\ toc' = FinishToc(toc, current_section, use_section)
    /\ book' = [book EXCEPT !.spine = spine,
                            !.toc = FinishToc(toc, current_section, use_section)]
    /\ pc' = "write"
    /\ UNCHANGED <<args, file_text, error, book_identifier, book_title,
                   book_author, book_language, book_text, chapters,
                   book_cover_jpeg, info, message, use_section, spine,
                   current_section, chapter_id, detect_calls, detect_failed,
                   cover_calls, written>>

StrNcx == <<"t", "o", "c", ".", "n", "c", "x">>
StrNavFile == <<"n", "a", "v", ".", "x", "h", "t", "m", "l">>
StrStyleCss == <<"s", "t", "y", "l", "e", ".", "c", "s", "s">>
StrTocCss == <<"t", "o", "c", ".", "c", "s", "s">>

\* lines 155-231: navigation files, stylesheets, and epub.write_epub, which
\* writes the file or raises
WriteEpub ==
    /\ pc = "write"
    /\ book' = [book EXCEPT !.items = @ \o <<StrNcx, StrNavFile, StrStyleCss, StrTocCss>>]
    /\ \/ /\ written' = Append(written,
                               [path |-> OutputPath(args.output_file, args.stem),
                                book |-> book',
                                toc_css_lists |-> use_section])
          /\ pc' = "done"
          /\ UNCHANGED error
       \/ Raise("WriteError") /\ UNCHANGED written
    /\ UNCHANGED <<args, file_text, book_identifier, book_title, book_author,
                   book_language, book_text, chapters, book_cover_jpeg, info,
                   message, use_section, spine, toc, current_section, chapter_id,
                   detect_calls, detect_failed, cover_calls>>

Next ==
    \/ ResolveMeta
    \/ ReadInput
    \/ DetectLanguage
    \/ SplitText
    \/ ConvertCover
    \/ AddPages
    \/ DetectSection
    \/ SectionMarker
    \/ Chapter
    \/ Finish
    \/ WriteEpub

Spec == Init /\ [][Next]_vars

----------------------------------------------------------------------------
(* Vocabulary of the properties *)

Range(f) == {f[i] : i \in DOMAIN f}

\* a is b with elements left out, the order kept
RECURSIVE IsSubsequence(_, _)
IsSubsequence(a, b) ==
    IF a = <<>> THEN TRUE
    ELSE IF b = <<>> THEN FALSE
    ELSE IF Head(a) = Head(b) THEN IsSubsequence(Tail(a), Tail(b))
    ELSE IsSubsequence(a, Tail(b))

\* the nodes of a two-level TOC, each section followed by its chapters
RECURSIVE FlattenSections(_)
FlattenSections(t) ==
    IF t = <<>> THEN <<>>
    ELSE <<Head(t)[1]>> \o Head(t)[2] \o FlattenSections(Tail(t))

TocNodes(t) == IF use_section THEN FlattenSections(t) ELSE t

\* the number a chap_NN.xhtml file name carries
DigitVal(c) == CHOOSE d \in 0..9 : DigitChar(d) = c

RECURSIVE ParseDec(_)
ParseDec(ds) ==
    IF ds = <<>> THEN 0
    ELSE 10 * ParseDec(SubSeq(ds, 1, Len(ds) - 1)) + DigitVal(ds[Len(ds)])

NumberPart(file_name) == SubSeq(file_name, Len(StrChap) + 1, Len(file_name) - Len(StrXhtml))

NodeIndex(node) == ParseDec(NumberPart(node.file_name))

WellFormedName(file_name) ==
    /\ Len(file_name) >= Len(StrChap) + Len(StrXhtml) + 2
    /\ SubSeq(file_name, 1, Len(StrChap)) = StrChap
    /\ SubSeq(file_name, Len(file_name) - Len(StrXhtml) + 1, Len(file_name)) = StrXhtml
    /\ \A c \in Range(NumberPart(file_name)) : \E d \in 0..9 : DigitChar(d) = c
    /\ (Len(NumberPart(file_name)) > 2 => NumberPart(file_name)[1] # "0")

\* the first line of a block, its leading newlines dropped
FirstLine(block) == Split(LStripChars(block, {NL}), <<NL>>)[1]

\* block i of the post-preamble blocks is a section marker
MarkerBlocks == {i \in 1..Len(chapters) : use_section /\ MatchSectionLine(FirstLine(chapters[i]))}

\* the spine and the TOC are final
Built == pc \in {"write", "done"}

\* create_epub returned
Completed == pc = "done"

----------------------------------------------------------------------------
(* C1 *)

\* C1: once the spine and the TOC are built, the nodes of the TOC, read in
\* TOC order (each section followed by its chapters), form a subsequence of
\* the spine, and neither the info page nor the message page is among them.
C1_TocWithinSpine ==
    Built =>
        /\ IsSubsequence(TocNodes(book.toc), book.spine)
        /\ \A n \in Range(TocNodes(book.toc)) :
              /\ n # info /\ n # message
              /\ n.file_name \notin {StrInfoFile, StrMessageFile}
        /\ (Completed => written[1].book.toc = book.toc /\ written[1].book.spine = book.spine)

C1_Witness ==
    /\ Completed
    /\ use_section
    /\ Len(book.toc) >= 2
    /\ \E k \in 1..Len(book.toc) : Len(book.toc[k][2]) >= 1

----------------------------------------------------------------------------
(* C4 *)

\* C4: the spine starts [info page, message page, "nav"] from the moment it
\* exists and "nav" occurs nowhere else in it; in a completed conversion the
\* spine written is these three entries followed by one node per
\* post-preamble block, the node of block k at position 3 + k.
C4_SpineOrder ==
    /\ spine # <<>> =>
          /\ Len(spine) >= 3
          /\ spine[1] = info /\ spine[1].file_name = StrInfoFile
          /\ spine[2] = message /\ spine[2].file_name = StrMessageFile
          /\ \A i \in 1..Len(spine) : spine[i] = Nav <=> i = 3
    /\ Completed =>
          /\ written[1].book.spine = spine
          /\ Len(spine) = 3 + Len(chapters)
          /\ \A k \in 1..Len(chapters) :
                /\ NodeIndex(spine[3 + k]) = k
                /\ spine[3 + k].title \in Range(Split(chapters[k], <<NL>>))

C4_Witness == Completed /\ Len(spine) >= 5 /\ spine[3] = Nav

----------------------------------------------------------------------------
(* C5 *)

\* C5: the node made from post-preamble block k (the entry 3 + k of the
\* spine) has the file name chap_NN.xhtml where NN is k in decimal, padded
\* with zeros to two digits and not padded beyond; no two nodes share a file
\* name; in section mode a section node carries the index of its marker
\* block and a chapter the index of its own block, so the chapter numbers
\* skip the indices of the markers.
C5_FileNames ==
    /\ \A k \in 1..(Len(spine) - 3) :
          /\ WellFormedName(spine[3 + k].file_name)
          /\ NodeIndex(spine[3 + k]) = k
          /\ spine[3 + k].title \in Range(Split(chapters[k], <<NL>>))
    /\ \A j, k \in 1..Len(spine) :
          j # k /\ j # 3 /\ k # 3 => spine[j].file_name # spine[k].file_name
    /\ Built /\ use_section =>
          \A e \in Range(book.toc) :
              /\ NodeIndex(e[1]) \in MarkerBlocks
              /\ \A c \in Range(e[2]) : NodeIndex(c) \notin MarkerBlocks

C5_Witness ==
    /\ Completed
    /\ use_section
    /\ \E e \in Range(book.toc) :
          \E c \in Range(e[2]) :
              /\ NumberPart(c.file_name) = <<"1", "0">>
              /\ NodeIndex(e[1]) > 1
    /\ \E e \in Range(book.toc) : NumberPart(e[1].file_name) = <<"0", "1">>

----------------------------------------------------------------------------
(* C2 *)

\* the lengths of the maximal runs of newlines of a text, left to right
RECURSIVE RunLengthsFrom(_, _, _)
RunLengthsFrom(s, i, cur) ==
    IF i > Len(s) THEN (IF cur > 0 THEN <<cur>> ELSE <<>>)
    ELSE IF s[i] = NL THEN RunLengthsFrom(s, i + 1, cur + 1)
    ELSE (IF cur > 0 THEN <<cur>> ELSE <<>>) \o RunLengthsFrom(s, i + 1, 0)

RunLengths(s) == RunLengthsFrom(s, 1, 0)

RECURSIVE SumSeq(_)
SumSeq(q) == IF q = <<>> THEN 0 ELSE Head(q) + SumSeq(Tail(q))

JustSplit == pc = "cover"

\* C2 (as amended): the split is on the literal string of N newlines, found
\* left to right: a maximal run of L newlines yields L div N boundaries (none
\* for a run of N-1, one for a run of N, and one for a run of N+1 when
\* N >= 2), the newlines of the run left over stay at the head of the next
\* block, and joining the blocks with N newlines gives the text back.
C2_LiteralSplit ==
    JustSplit =>
        LET N == args.linebreaks
            runs == RunLengths(book_text)
        IN  /\ Len(chapters) = 1 + SumSeq([i \in 1..Len(runs) |-> runs[i] \div N])
            /\ Join(chapters, Newlines(N)) = book_text
            /\ \A k \in 1..Len(chapters) :
                  /\ \A r \in Range(RunLengths(chapters[k])) : r < N
                  /\ (k < Len(chapters) /\ chapters[k] # <<>>
                        => chapters[k][Len(chapters[k])] # NL)

C2_Witness ==
    /\ JustSplit
    /\ args.linebreaks >= 2
    /\ (args.linebreaks + 1) \in Range(RunLengths(book_text))
    /\ (args.linebreaks - 1) \in Range(RunLengths(book_text))
    /\ Len(chapters) = 2

\* C2 (as claimed): a block boundary is produced only where the run of
\* newlines has length exactly N, so the blocks are one more than the runs
\* of length exactly N.
C2_ExactRunsOnly ==
    JustSplit =>
        LET N == args.linebreaks
            runs == RunLengths(book_text)
        IN  Len(chapters) = 1 + Cardinality({i \in 1..Len(runs) : runs[i] = N})

----------------------------------------------------------------------------
(* C3 *)

\* the post-preamble blocks of the input, and whether one is a section marker
InputBlocks == Tail(Split(file_text, Newlines(args.linebreaks)))

NoSectionMarkers == \A i \in 1..Len(InputBlocks) : ~MatchSectionLine(FirstLine(InputBlocks[i]))

\* C3 (as claimed): for a text with no section marker, zero post-preamble
\* blocks included, create_epub raises no error of its own and, completed,
\* has a flat TOC with one top-level chapter node per post-preamble block.
C3_FlatTocForEveryText ==
    NoSectionMarkers =>
        /\ error # "IndexError"
        /\ Completed =>
              /\ ~use_section
              /\ Len(book.toc) = Len(InputBlocks)
              /\ \A k \in 1..Len(book.toc) : book.toc[k] = spine[3 + k]

----------------------------------------------------------------------------
(* C6 *)

\* section mode was detected on a first block that is not a section marker
ContentBeforeSection ==
    /\ use_section
    /\ chapters # <<>>
    /\ ~MatchSectionLine(FirstLine(chapters[1]))

\* C6: when section mode is detected on a first block that is not a section
\* marker, the call is either about to process that block or has ended in
\* IndexError on it; the block is in no TOC, at top level or under a
\* section, and nothing is written.
C6_ContentBeforeSectionFails ==
    ContentBeforeSection =>
        /\ \/ pc = "loop" /\ chapter_id = 0
           \/ pc = "failed" /\ error = "IndexError" /\ chapter_id = 0
        /\ toc = <<>>
        /\ current_section = <<>>
        /\ book.toc = <<>>
        /\ written = <<>>

C6_Witness ==
    /\ ContentBeforeSection
    /\ pc = "failed"
    /\ Len(spine) = 4
    /\ Len(chapters) >= 2

----------------------------------------------------------------------------
(* C7 *)

\* the "(" that pairs with the ")" ending the stem, counting nesting from
\* the right; 0 when there is none
RECURSIVE OpenOfTrailing(_, _, _)
OpenOfTrailing(s, i, depth) ==
    IF i < 1 THEN 0
    ELSE IF s[i] = ")" THEN OpenOfTrailing(s, i - 1, depth + 1)
    ELSE IF s[i] = "(" THEN (IF depth = 1 THEN i ELSE OpenOfTrailing(s, i - 1, depth - 1))
    ELSE OpenOfTrailing(s, i - 1, depth)

HasTrailingAuthor(s) ==
    s # <<>> /\ s[Len(s)] = ")" /\ OpenOfTrailing(s, Len(s), 0) > 0

\* every ")" of the stem closes a "(" and every "(" is closed
RECURSIVE Depths(_, _, _)
Depths(s, i, depth) ==
    IF i > Len(s) THEN <<depth>>
    ELSE <<depth>> \o Depths(s, i + 1,
                             depth + (IF s[i] = "(" THEN 1 ELSE IF s[i] = ")" THEN -1 ELSE 0))

Balanced(s) ==
    /\ \A d \in Range(Depths(s, 1, 0)) : d >= 0
    /\ Depths(s, 1, 0)[Len(s) + 1] = 0

ClaimedTitle ==
    IF Truthy(args.book_title) THEN args.book_title.val
    ELSE IF HasTrailingAuthor(args.stem)
         THEN SubSeq(args.stem, 1, OpenOfTrailing(args.stem, Len(args.stem), 0) - 1)
         ELSE args.stem

ClaimedAuthor ==
    IF Truthy(args.book_author) THEN args.book_author.val
    ELSE IF HasTrailingAuthor(args.stem)
         THEN SubSeq(args.stem, OpenOfTrailing(args.stem, Len(args.stem), 0) + 1,
                     Len(args.stem) - 1)
         ELSE StrUnknown

\* C7 (as claimed): once the metadata are resolved, a title or author given
\* non-empty is kept; otherwise, for a stem whose parentheses pair up, the
\* author is the text inside the trailing parentheses and the title the text
\* before them, also when the stem holds several pairs, and without trailing
\* parentheses the title is the stem and the author "Unknown".
C7_TrailingAuthor ==
    pc # "meta" /\ Balanced(args.stem) =>
        /\ book_title = Some(ClaimedTitle)
        /\ book_author = Some(ClaimedAuthor)

----------------------------------------------------------------------------
(* C8 *)

\* the language step has run
LanguageResolved ==
    \/ pc \in {"split", "cover", "pages", "detect", "loop", "write", "done"}
    \/ pc = "failed" /\ error # "OSError"

\* C8: a language given (non-empty) is the one used and langdetect.detect is
\* never called; without one, detect is called once, on the full text of the
\* file; when detect fails the language is "en", no LangDetectException ever
\* leaves create_epub, and whatever ends the call afterwards is an error of a
\* later step.
C8_LanguageFallback ==
    /\ error # "LangDetectException"
    /\ Truthy(args.book_language) =>
          /\ detect_calls = <<>>
          /\ ~detect_failed
          /\ book_language.val = args.book_language.val
          /\ (book # NoBook => book.language = args.book_language.val)
    /\ ~Truthy(args.book_language) /\ LanguageResolved =>
          /\ detect_calls = <<file_text>>
          /\ book_language.some
          /\ (book # NoBook => book.language = book_language.val)
    /\ ~LanguageResolved => detect_calls = <<>> /\ ~detect_failed
    /\ detect_failed =>
          /\ book_language = Some(<<"e", "n">>)
          /\ pc \in {"split", "cover", "pages", "detect", "loop", "write", "done", "failed"}
          /\ (pc = "failed" => error \in {"ImageError", "IndexError", "WriteError"})
          /\ (Completed => written[1].book.language = <<"e", "n">>)

C8_Witness ==
    /\ detect_failed
    /\ Completed
    /\ written[1].book.language = <<"e", "n">>
    /\ detect_calls = <<file_text>>

----------------------------------------------------------------------------
(* C9 *)

\* the section markers among the first n post-preamble blocks
MarkersUpTo(n) == {i \in MarkerBlocks : i <= n}

\* entry e of a TOC is a section opened by marker block m whose chapters are
\* the blocks m+1 .. m+n, in order, n the number of its children
SectionEntry(e) ==
    /\ Len(e) = 2
    /\ NodeIndex(e[1]) \in MarkerBlocks
    /\ e[1] = spine[3 + NodeIndex(e[1])]
    /\ e[1].content[1].tag = "h1"
    /\ \A j \in 1..Len(e[2]) :
          /\ NodeIndex(e[2][j]) = NodeIndex(e[1]) + j
          /\ NodeIndex(e[2][j]) \notin MarkerBlocks
          /\ e[2][j] = spine[3 + NodeIndex(e[2][j])]
          /\ e[2][j].content[1].tag = "h2"

\* the sections of t followed by the open section cover the blocks 1 .. n
SectionsCover(t, n) ==
    /\ Len(t) = Cardinality(MarkersUpTo(n))
    /\ \A k \in 1..Len(t) :
          /\ SectionEntry(t[k])
          /\ NodeIndex(t[k][1]) + Len(t[k][2]) + 1 =
                (IF k < Len(t) THEN NodeIndex(t[k + 1][1]) ELSE n + 1)
    /\ (t # <<>> => NodeIndex(t[1][1]) = 1)

StartsWithMarker == use_section /\ chapters # <<>> /\ 1 \in MarkerBlocks

SectionsInvariant ==
    StartsWithMarker =>
        /\ pc = "loop" =>
              SectionsCover(IF current_section = <<>> THEN toc
                            ELSE Append(toc, current_section), chapter_id)
        /\ Built =>
              /\ SectionsCover(book.toc, Len(chapters))
              /\ book.toc = toc
              /\ Len(book.toc) = Cardinality(MarkerBlocks)

SectionsStep ==
    StartsWithMarker /\ pc = "loop" =>
        /\ toc' # toc =>
              /\ \/ chapter_id < Len(chapters) /\ (chapter_id + 1) \in MarkerBlocks
                 \/ chapter_id = Len(chapters)
              /\ current_section # <<>>
              /\ toc' = Append(toc, current_section)
        /\ chapter_id < Len(chapters) /\ (chapter_id + 1) \notin MarkerBlocks =>
              /\ toc' = toc
              /\ current_section'[1] = current_section[1]
              /\ current_section'[2] = Append(current_section[2], spine'[Len(spine')])
              /\ NodeIndex(spine'[Len(spine')]) = chapter_id + 1

\* C9: in section mode on blocks that start with a section marker, the TOC
\* followed by the open section always holds one entry per marker processed,
\* in marker order, each with the chapters of the blocks between its marker
\* and the next, in order; only a section marker or the end of the blocks
\* appends to the TOC, and what it appends is the open section; a chapter
\* block goes to the children of the open section and nowhere else; the TOC
\* built has one entry per marker, the last open section included, a section
\* without chapters with an empty child list, and no chapter at its root.
C9_Sections == [](SectionsInvariant) /\ [][SectionsStep]_vars

C9_Witness ==
    /\ Completed
    /\ StartsWithMarker
    /\ Len(book.toc) = 3
    /\ book.toc[1][2] = <<>>
    /\ Len(book.toc[2][2]) >= 1
    /\ Len(book.toc[3][2]) >= 1

----------------------------------------------------------------------------
(* C10 *)

\* a marker block of the input with no non-blank line after the marker
BareMarker(i) ==
    /\ i \in MarkerBlocks
    /\ \A l \in Range(Tail(Split(LStripChars(chapters[i], {NL}), <<NL>>))) : l = <<>>

\* C10: epub.write_epub writes at most once, and only as the last step of a
\* call in which nothing failed: the input was read, the metadata resolved,
\* the cover converted if one was asked for, and spine and TOC built over at
\* least one post-preamble block with every section marker titled; the cover
\* converter is called at most once and only for a cover path that is given
\* and not empty; a call that fails carries its error to the caller and has
\* written nothing.
C10_WriteLast ==
    /\ Len(written) <= 1
    /\ Len(cover_calls) <= 1
    /\ (cover_calls # <<>> =>
            args.book_cover.some /\ args.book_cover.val \notin {<<>>, <<".">>})
    /\ (pc = "failed") <=> (error # "none")
    /\ pc = "failed" => written = <<>>
    /\ written # <<>> =>
          /\ Completed
          /\ book_text = file_text
          /\ book_title.some /\ book_author.some /\ book_language.some
          /\ book_identifier.some
          /\ (args.book_cover.some /\ args.book_cover.val \notin {<<>>, <<".">>}
                => cover_calls # <<>> /\ written[1].book.cover.some)
          /\ chapters # <<>>
          /\ \A i \in 1..Len(chapters) : ~BareMarker(i)
          /\ written[1].book.spine = spine /\ Len(spine) = 3 + Len(chapters)
          /\ written[1].book.toc = toc
    /\ Completed => Len(written) = 1

C10_Witness ==
    /\ Completed
    /\ Len(written) = 1
    /\ cover_calls # <<>>
    /\ written[1].book.cover.some

====
